---- MODULE Spec2Model ----
(***************************************************************************)
(* Call lifecycle of the AI call center: the Celery tasks of               *)
(* backend/workers/tasks.py (initiate_call, process_conversation_turn,     *)
(* finalize_call), the Twilio webhooks of backend/api/routes/webhooks.py   *)
(* (status, voice, process-speech) and the turn logic of                   *)
(* backend/services/llm_service.py, over the rows of the calls, leads,     *)
(* conversation_history and meetings tables.                               *)
(***************************************************************************)
EXTENDS Integers, Sequences, FiniteSets, TLC

(* ------------------------------ bounds --------------------------------- *)
NumLeads == 1
NumTasks == 2
MaxCalls == 2
MaxTurns == 1
MaxStoredTurns == 2
MaxToolCalls == 1

(* ------------------------- program constants --------------------------- *)
\* @celery_app.task(base=CallTask, bind=True, max_retries=3)
MaxRetries == 3

Leads == 1..NumLeads
\* the lead_id arguments of initiate_call: 0 is an id without a Lead row
LeadIds == 0..NumLeads
Tasks == 1..NumTasks

\* SQL NULL of calls.twilio_call_sid; a stored sid is the id of its call
NoSid == 0
\* SQL NULL of calls.outcome
NullOutcome == "null"
\* a nullable Text column: {} is NULL, {v} is the stored value v
None == {}
Some(v) == {v}

\* class CallOutcome
CallOutcome == {"interested", "not_interested", "no_answer", "busy"}
\* class LeadStatus
LeadStatus == {"pending", "queued", "calling", "contacted",
               "meeting_scheduled", "not_interested", "no_answer", "failed"}
\* class ConversationIntent
ConversationIntent == {"INTERESTED", "NOT_INTERESTED", "NEEDS_INFO",
                       "SCHEDULE_MEETING", "MEETING_BOOKED", "END_CALL"}

\* Column(Enum(CallOutcome), default=CallOutcome.NO_ANSWER, nullable=False):
\* the ORM leaves an attribute whose value is None out of the INSERT, so
\* Call(outcome=None) is stored with the column's default
OutcomeColumnDefault == "no_answer"
InsertedOutcome(v) == IF v = NullOutcome THEN OutcomeColumnDefault ELSE v

VARIABLES
  calls,          \* table calls: sequence of rows, the id of a row is its index
  leadStatus,     \* table leads: status of each lead
  history,        \* table conversation_history: per call, the roles of its rows in order
  meetings,       \* table meetings: sequence of rows
  task,           \* the initiate_call executions
  dials,          \* number of dial requests sent to the telephony provider
  line,           \* per call, the provider's view of the phone line
  statusReq,      \* the status webhook request between its writes and its commit
  finalizeQueue,  \* finalize_call tasks enqueued and not yet run
  response,       \* the last reply of twilio_process_speech
  turnBudget,     \* bound: the user turns the provider still delivers
  events,         \* per call, the calendar events book_meeting created for it
  offered,        \* per call, the check_calendar_availability runs that returned slots
  llmSlots,       \* recently_offered_slots of the worker's LLMService (CallTask._llm)
  invocation      \* a method of an LLMService instance being run on its own

vars == <<calls, leadStatus, history, meetings, task, dials, line, statusReq,
          finalizeQueue, response, turnBudget, events, offered, llmSlots,
          invocation>>

\* the state of the tool layer
svcVars == <<events, offered, llmSlots, invocation>>

CallIds == 1..Len(calls)

NoRequest == [kind |-> "none"]
NoResponse == [kind |-> "none"]
NoResult == [kind |-> "none"]
NoInvocation == [kind |-> "none"]
\* self.recently_offered_slots = []; a non-empty list is named by the call
\* and the number of the check that returned it: <<call, number>>
NoSlots == <<>>

IdleTask == [pc |-> "idle", lead |-> 0, retries |-> 0, call |-> 0, sid |-> NoSid,
             result |-> NoResult]

Init ==
  /\ calls = <<>>
  /\ leadStatus = [l \in Leads |-> "pending"]
  /\ history = <<>>
  /\ meetings = <<>>
  /\ task = [t \in Tasks |-> IdleTask]
  /\ dials = 0
  /\ line = <<>>
  /\ statusReq = NoRequest
  /\ finalizeQueue = {}
  /\ response = NoResponse
  /\ turnBudget = MaxTurns
  /\ events = <<>>
  /\ offered = <<>>
  /\ llmSlots = NoSlots
  /\ invocation = NoInvocation

\* an active-call query that finds nothing
NoActiveCalls(l) == {}

(* ---------------------- storage: table calls --------------------------- *)
\* db.query(Call).filter(Call.lead_id == lead_id, Call.ended_at.is_(None))
ActiveCalls(l) == {c \in CallIds : calls[c].lead = l /\ ~calls[c].ended}

\* .first() of that query
FirstActive(l) == CHOOSE c \in ActiveCalls(l) : \A d \in ActiveCalls(l) : c <= d

\* the calls table without the partial unique index
IndexAcceptsAll(l) == TRUE

\* CREATE UNIQUE INDEX idx_active_calls_per_lead ON calls(lead_id)
\* WHERE ended_at IS NULL: the INSERT of an active row for l is accepted
\* only when no active row for l exists
IndexAccepts(l) == ActiveCalls(l) = {}

\* the row initiate_call inserts: Call(lead_id, language, voice_id, voice_name, outcome=None)
NewCall(l) == [lead |-> l, sid |-> NoSid, outcome |-> InsertedOutcome(NullOutcome),
               ended |-> FALSE, transcript |-> None, summary |-> None]

\* db.query(Call).filter(Call.twilio_call_sid == call_sid).first() for the
\* sid the provider gave to call c: found once the sid is stored
FoundBySid(c) == c \in CallIds /\ calls[c].sid = c

(* ----------------------- task initiate_call ---------------------------- *)
\* Task start (first delivery or a retry): load the lead, query the active call.
InitiateStart(t, l) ==
  /\ task[t].pc \in {"idle", "retry"}
  /\ task[t].pc = "retry" => l = task[t].lead
  /\ IF l \notin Leads
       THEN task' = [task EXCEPT ![t].pc = "done", ![t].lead = l,
                       ![t].result = [kind |-> "lead_not_found", success |-> FALSE,
                                      error |-> "Lead not found"]]
     ELSE IF ActiveCalls(l) # {}
       THEN task' = [task EXCEPT ![t].pc = "done", ![t].lead = l,
                       ![t].result = [kind |-> "in_progress", success |-> FALSE,
                                      error |-> "Call already in progress",
                                      active_call_id |-> FirstActive(l)]]
       ELSE task' = [task EXCEPT ![t].pc = "checked", ![t].lead = l]
  /\ UNCHANGED <<calls, leadStatus, history, meetings, dials, line, statusReq,
                 finalizeQueue, response, turnBudget>>
  /\ UNCHANGED svcVars

\* except Exception: raise self.retry(exc=e, countdown=60)
RetryTask(t) ==
  IF task[t].retries < MaxRetries
    THEN [task EXCEPT ![t].pc = "retry", ![t].retries = @ + 1, ![t].call = 0,
                      ![t].sid = NoSid]
    ELSE [task EXCEPT ![t].pc = "done", ![t].call = 0, ![t].sid = NoSid,
                      ![t].result = [kind |-> "raised", success |-> FALSE]]

\* lead.status = CALLING; db.add(call); db.commit(); db.refresh(call)
InitiateCreate(t) ==
  /\ task[t].pc = "checked"
  /\ LET l == task[t].lead IN
       IF IndexAccepts(l)
         THEN /\ Len(calls) < MaxCalls
              /\ calls' = Append(calls, NewCall(l))
              /\ history' = Append(history, <<>>)
              /\ line' = Append(line, "idle")
              /\ events' = Append(events, 0)
              /\ offered' = Append(offered, 0)
              /\ leadStatus' = [leadStatus EXCEPT ![l] = "calling"]
              /\ task' = [task EXCEPT ![t].pc = "created", ![t].call = Len(calls) + 1]
         ELSE \* IntegrityError: the session is rolled back, the task retried
              /\ task' = RetryTask(t)
              /\ UNCHANGED <<calls, history, line, leadStatus, events, offered>>
  /\ UNCHANGED <<meetings, dials, statusReq, finalizeQueue, response, turnBudget,
                 llmSlots, invocation>>

\* call_sid = self.twilio.initiate_call(...): the sid, or None when the
\* provider refuses or the request fails
InitiateDial(t, ok) ==
  /\ task[t].pc = "created"
  /\ dials' = dials + 1
  /\ task' = [task EXCEPT ![t].pc = "dialed",
                          ![t].sid = IF ok THEN task[t].call ELSE NoSid]
  /\ line' = [line EXCEPT ![task[t].call] = IF ok THEN "ringing" ELSE "idle"]
  /\ UNCHANGED <<calls, leadStatus, history, meetings, statusReq, finalizeQueue,
                 response, turnBudget>>
  /\ UNCHANGED svcVars

\* a failure branch that records the outcome and leaves ended_at NULL
InitiateFinishNoEnd(t, dbfail) ==
  /\ task[t].pc = "dialed"
  /\ calls' = IF task[t].sid # NoSid
                THEN [calls EXCEPT ![task[t].call].sid = task[t].sid]
                ELSE [calls EXCEPT ![task[t].call].outcome = "no_answer"]
  /\ leadStatus' = IF task[t].sid # NoSid THEN leadStatus
                    ELSE [leadStatus EXCEPT ![task[t].lead] = "no_answer"]
  /\ task' = [task EXCEPT ![t].pc = "done",
                 ![t].result = [kind |-> IF task[t].sid # NoSid THEN "dialing"
                                         ELSE "dial_failed"]]
  /\ UNCHANGED <<history, meetings, dials, line, statusReq, finalizeQueue,
                 response, turnBudget>>
  /\ UNCHANGED svcVars

\* if call_sid: store it; else: outcome NO_ANSWER, ended_at, lead NO_ANSWER; commit.
\* dbfail: the commit raises; the writes of this step are rolled back (the
\* Call row was committed before the dial) and the except branch retries.
InitiateFinish(t, dbfail) ==
  /\ task[t].pc = "dialed"
  /\ LET c == task[t].call
         l == task[t].lead IN
       IF dbfail
         THEN /\ task' = RetryTask(t)
              /\ UNCHANGED <<calls, leadStatus>>
       ELSE IF task[t].sid # NoSid
         THEN /\ calls' = [calls EXCEPT ![c].sid = task[t].sid]
              /\ task' = [task EXCEPT ![t].pc = "done",
                            ![t].result = [kind |-> "dialing", success |-> TRUE,
                                           call_id |-> c, call_sid |-> task[t].sid]]
              /\ UNCHANGED leadStatus
         ELSE /\ calls' = [calls EXCEPT ![c].outcome = "no_answer", ![c].ended = TRUE]
              /\ leadStatus' = [leadStatus EXCEPT ![l] = "no_answer"]
              /\ task' = [task EXCEPT ![t].pc = "done",
                            ![t].result = [kind |-> "dial_failed", success |-> FALSE,
                                           error |-> "Failed to initiate call"]]
  /\ UNCHANGED <<history, meetings, dials, line, statusReq, finalizeQueue,
                 response, turnBudget>>
  /\ UNCHANGED svcVars

(* ------------------ LLMService.get_response_with_tools ----------------- *)
ToolNames == {"check_calendar_availability", "book_meeting", "unknown_tool"}
\* one executed tool call as the turn processors read it: tool_call['tool']
\* and tool_call['result'].get('success'); _execute_tool answers an unknown
\* tool with {"error": ...}, which has no success key. slots: the result is
\* that of a check_calendar_availability whose available_slots is not empty
\* (get_available_slots returns [] when the client is not initialised or the
\* query fails with HttpError, and the check still reports success)
ToolExecs == {x \in [tool : ToolNames, success : BOOLEAN, slots : BOOLEAN] :
                /\ x.tool = "unknown_tool" => ~x.success
                /\ x.slots => x.tool = "check_calendar_availability" /\ x.success}

RECURSIVE SeqsUpTo(_, _)
SeqsUpTo(S, n) ==
  IF n = 0 THEN {<<>>}
  ELSE LET shorter == SeqsUpTo(S, n - 1) IN
         shorter \cup {Append(q, x) : q \in {r \in shorter : Len(r) = n - 1}, x \in S}

\* What the language model and the tool layer do in one turn:
\*   fail      - "first": the first completion (or json.loads of the tool
\*               arguments) raises; "final": the completion after the tool
\*               executions raises; "none": nothing raises
\*   tools     - the tool calls executed, in order
\*   goodbye   - the AI reply contains a goodbye phrase
\*   confirmed - the AI reply contains "confirmed" or "calendar invite sent"
\*   decline   - the user message contains a not-interested keyword
\*   affirm    - the user message contains an interested keyword
LLMRuns ==
  {r \in [fail : {"none", "first", "final"}, tools : SeqsUpTo(ToolExecs, MaxToolCalls),
          goodbye : BOOLEAN, confirmed : BOOLEAN, decline : BOOLEAN, affirm : BOOLEAN] :
     /\ r.fail = "first" => r.tools = <<>>
     /\ r.fail = "final" => r.tools # <<>>
     /\ r.fail # "none" => ~r.goodbye /\ ~r.confirmed /\ ~r.decline /\ ~r.affirm}

BookedIn(tool_calls) ==
  \E i \in 1..Len(tool_calls) :
     tool_calls[i].tool = "book_meeting" /\ tool_calls[i].success

\* LLMService._classify_intent
ClassifyIntent(r, tool_calls) ==
  LET meeting_booked == BookedIn(tool_calls)
      ai_saying_goodbye == r.goodbye IN
  IF meeting_booked /\ ai_saying_goodbye THEN "MEETING_BOOKED"
  ELSE IF meeting_booked /\ ~ai_saying_goodbye THEN "SCHEDULE_MEETING"
  ELSE IF r.confirmed /\ ai_saying_goodbye THEN "MEETING_BOOKED"
  ELSE IF ai_saying_goodbye THEN "END_CALL"
  ELSE IF r.decline THEN "NOT_INTERESTED"
  ELSE IF \E i \in 1..Len(tool_calls) :
             tool_calls[i].tool = "check_calendar_availability" THEN "SCHEDULE_MEETING"
  ELSE IF r.affirm THEN "INTERESTED"
  ELSE "NEEDS_INFO"

\* get_response_with_tools: (intent, ai_response, tool_calls); its except
\* branch returns END_CALL with the apology and tool_calls None
GetResponseWithTools(r) ==
  IF r.fail # "none"
    THEN [intent |-> "END_CALL", text |-> "llm_apology", tool_calls |-> <<>>]
    ELSE [intent |-> ClassifyIntent(r, r.tools), text |-> "ai_response",
          tool_calls |-> r.tools]

\* the successful book_meeting entries of the returned tool_calls
RECURSIVE Bookings(_)
Bookings(tool_calls) ==
  IF tool_calls = <<>> THEN 0
  ELSE (IF Head(tool_calls).tool = "book_meeting" /\ Head(tool_calls).success
          THEN 1 ELSE 0) + Bookings(Tail(tool_calls))

\* the check_calendar_availability executions of a turn that returned slots
RECURSIVE Checks(_)
Checks(tools) ==
  IF tools = <<>> THEN 0
  ELSE (IF Head(tools).slots THEN 1 ELSE 0) + Checks(Tail(tools))

\* self.recently_offered_slots = selected_slots: the slots of an LLMService
\* instance after it executed the tool calls of a turn of call c, s being
\* its slots before and k the checks of c that returned slots so far
RECURSIVE SlotsAfter(_, _, _, _)
SlotsAfter(s, c, k, tools) ==
  IF tools = <<>> THEN s
  ELSE IF Head(tools).tool = "check_calendar_availability" /\ Head(tools).success
    THEN IF Head(tools).slots
           THEN SlotsAfter(<<c, k + 1>>, c, k + 1, Tail(tools))
           ELSE SlotsAfter(NoSlots, c, k, Tail(tools))
    ELSE SlotsAfter(s, c, k, Tail(tools))

\* the tool calls of a turn executed before its first book_meeting
RECURSIVE BeforeBooking(_)
BeforeBooking(tools) ==
  IF tools = <<>> \/ Head(tools).tool = "book_meeting" THEN <<>>
  ELSE <<Head(tools)>> \o BeforeBooking(Tail(tools))

\* offered_datetimes of _book_meeting: the slots the instance holds when
\* the first book_meeting of the turn runs
SlotsAtBooking(s, c, tools) == SlotsAfter(s, c, offered[c], BeforeBooking(tools))

\* _book_meeting reads meeting_datetime.date() == offered_dt.date() for the
\* 'start' of each offered slot, which get_available_slots fills with
\* current_time.isoformat(), a str: with a non-empty recently_offered_slots
\* the comparison raises AttributeError and the booking returns
\* {"success": False}. The tool calls of a turn an instance with slots s can
\* have executed: no book_meeting succeeds while the slots are not empty.
RECURSIVE Executable(_, _, _, _)
Executable(s, c, k, tools) ==
  IF tools = <<>> THEN TRUE
  ELSE /\ (Head(tools).tool = "book_meeting" /\ Head(tools).success) => s = NoSlots
       /\ Executable(SlotsAfter(s, c, k, <<Head(tools)>>), c,
                     k + Checks(<<Head(tools)>>), Tail(tools))

\* LLMService(calendar_service=..., zoom_service=...): the webhook builds a
\* new instance for every request
NewServiceSlots == NoSlots

RECURSIVE AddMeetings(_, _, _, _)
AddMeetings(ms, l, c, k) ==
  IF k = 0 THEN ms ELSE AddMeetings(Append(ms, [lead |-> l, call |-> c]), l, c, k - 1)

Decided == {"interested", "not_interested"}

\* a handler whose END_CALL branch writes BUSY over every outcome
SpeechSessionOverwrite(c, res) ==
  LET k == Bookings(res.tool_calls)
      o1 == IF k > 0 THEN "interested" ELSE calls[c].outcome
      base == [outcome |-> o1, ended |-> calls[c].ended,
               lead |-> leadStatus[calls[c].lead], bookings |-> k,
               end_call |-> FALSE]
  IN IF res.intent = "END_CALL"
       THEN [base EXCEPT !.outcome = "busy", !.ended = TRUE, !.end_call = TRUE]
       ELSE base

\* a task whose END_CALL branch does not stamp ended_at
TaskSessionNoEnd(c, res) ==
  [outcome |-> IF calls[c].outcome \notin Decided THEN "busy" ELSE calls[c].outcome,
   ended |-> calls[c].ended, lead |-> leadStatus[calls[c].lead], bookings |-> 0]

\* an except branch that answers without TwiML
SilentFailure == [kind |-> "error", say |-> "http_500", hangup |-> TRUE]

(* ------------------ webhook twilio_process_speech ---------------------- *)
\* The session after the tool loop (lines 246-275) and the intent branch
\* (lines 285-319): the values the second commit writes.
SpeechSession(c, res) ==
  LET k == Bookings(res.tool_calls)
      o1 == IF k > 0 THEN "interested" ELSE calls[c].outcome
      s1 == IF k > 0 THEN "meeting_scheduled" ELSE leadStatus[calls[c].lead]
      base == [outcome |-> o1, ended |-> calls[c].ended, lead |-> s1,
               bookings |-> k, end_call |-> FALSE]
  IN CASE res.intent = "MEETING_BOOKED" ->
            [base EXCEPT !.outcome = "interested", !.end_call = TRUE]
       [] res.intent = "NOT_INTERESTED" ->
            [base EXCEPT !.outcome = "not_interested", !.lead = "not_interested",
                         !.end_call = TRUE]
       [] res.intent = "END_CALL" ->
            [base EXCEPT !.outcome = IF o1 \notin Decided THEN "busy" ELSE o1,
                         !.ended = TRUE, !.end_call = TRUE]
       [] res.intent \in {"INTERESTED", "SCHEDULE_MEETING"} ->
            [base EXCEPT !.outcome = IF o1 \notin Decided THEN "busy" ELSE o1]
       [] OTHER -> base

\* the TwiML replies of the handler
NotFoundReply == [kind |-> "reply", say |-> "error_processing", hangup |-> FALSE]
RepeatReply == [kind |-> "reply", say |-> "please_repeat", hangup |-> FALSE]
\* except Exception: db.rollback(); <Say>I apologize ...</Say><Hangup/>
HandlerApology == [kind |-> "reply", say |-> "handler_apology", hangup |-> TRUE]
TurnReply(res, s) == [kind |-> "reply", say |-> res.text, hangup |-> s.end_call]

\* a reply without Gather ends the provider's call
LineAfter(c, reply) ==
  IF reply.hangup \/ reply = NotFoundReply
    THEN [line EXCEPT ![c] = "hungup"] ELSE line

\* One request to /twilio/process-speech for the line of call c.
\*   speech : "empty" | "text";  r : the language model's behaviour;
\*   dbfail : "none" | "first" | "second", the commit that raises
ProcessSpeech(c, speech, r, dbfail) ==
  /\ c \in CallIds
  /\ line[c] = "answered"
  /\ turnBudget' = IF FoundBySid(c) /\ speech = "text"
                     THEN turnBudget - 1 ELSE turnBudget
  /\ IF ~FoundBySid(c)
       THEN /\ response' = NotFoundReply
            /\ line' = LineAfter(c, NotFoundReply)
            /\ UNCHANGED <<calls, leadStatus, history, meetings>>
     ELSE IF speech = "empty"
       THEN /\ response' = RepeatReply
            /\ UNCHANGED <<calls, leadStatus, history, meetings, line>>
     ELSE
       /\ turnBudget > 0
       /\ IF dbfail = "first"
            THEN /\ response' = HandlerApology
                 /\ line' = LineAfter(c, HandlerApology)
                 /\ UNCHANGED <<calls, leadStatus, history, meetings>>
          ELSE LET res == GetResponseWithTools(r)
                   s == SpeechSession(c, res) IN
            /\ Executable(NewServiceSlots, c, offered[c], r.tools)
            /\ IF dbfail = "second"
                 THEN /\ history' = [history EXCEPT ![c] = Append(@, "user")]
                      /\ response' = HandlerApology
                      /\ line' = LineAfter(c, HandlerApology)
                      /\ UNCHANGED <<calls, leadStatus, meetings>>
                 ELSE /\ history' = [history EXCEPT ![c] = @ \o <<"user", "ai">>]
                      /\ calls' = [calls EXCEPT ![c].outcome = s.outcome,
                                                ![c].ended = s.ended]
                      /\ leadStatus' = [leadStatus EXCEPT ![calls[c].lead] = s.lead]
                      /\ meetings' = AddMeetings(meetings, calls[c].lead, c, s.bookings)
                      /\ response' = TurnReply(res, s)
                      /\ line' = LineAfter(c, TurnReply(res, s))
  /\ LET ran == FoundBySid(c) /\ speech = "text" /\ dbfail # "first" IN
       /\ events' = IF ran THEN [events EXCEPT ![c] = @ + Bookings(r.tools)]
                     ELSE events
       /\ offered' = IF ran THEN [offered EXCEPT ![c] = @ + Checks(r.tools)]
                      ELSE offered
  /\ UNCHANGED <<task, dials, statusReq, finalizeQueue, llmSlots, invocation>>

(* ------------------ task process_conversation_turn --------------------- *)
\* The session after the tool loop (lines 230-258) and the intent branch
\* (lines 268-285): the values the second commit writes.
TaskSession(c, res) ==
  LET k == Bookings(res.tool_calls)
      o1 == IF k > 0 THEN "interested" ELSE calls[c].outcome
      s1 == IF k > 0 THEN "meeting_scheduled" ELSE leadStatus[calls[c].lead]
      base == [outcome |-> o1, ended |-> calls[c].ended, lead |-> s1,
               bookings |-> k]
  IN CASE res.intent = "MEETING_BOOKED" ->
            [base EXCEPT !.outcome = "interested"]
       [] res.intent = "NOT_INTERESTED" ->
            [base EXCEPT !.outcome = "not_interested", !.lead = "not_interested"]
       [] res.intent = "END_CALL" ->
            [base EXCEPT !.outcome = IF o1 \notin Decided THEN "busy" ELSE o1,
                         !.ended = TRUE]
       [] res.intent \in {"INTERESTED", "SCHEDULE_MEETING"} ->
            [base EXCEPT !.outcome = "busy"]
       [] OTHER -> base

\* One run of process_conversation_turn(call_id = c, user_message).
ProcessConversationTurn(c, r, dbfail) ==
  /\ c \in CallIds
  /\ line[c] = "answered"
  /\ turnBudget > 0
  /\ turnBudget' = turnBudget - 1
  /\ IF dbfail = "first"
       THEN UNCHANGED <<calls, leadStatus, history, meetings>>
     ELSE LET res == GetResponseWithTools(r)
              s == TaskSession(c, res) IN
       /\ Executable(llmSlots, c, offered[c], r.tools)
       /\ IF dbfail = "second"
            THEN /\ history' = [history EXCEPT ![c] = Append(@, "user")]
                 /\ UNCHANGED <<calls, leadStatus, meetings>>
            ELSE /\ history' = [history EXCEPT ![c] = @ \o <<"user", "ai">>]
                 /\ calls' = [calls EXCEPT ![c].outcome = s.outcome, ![c].ended = s.ended]
                 /\ leadStatus' = [leadStatus EXCEPT ![calls[c].lead] = s.lead]
                 /\ meetings' = AddMeetings(meetings, calls[c].lead, c, s.bookings)
  /\ events' = IF dbfail # "first" THEN [events EXCEPT ![c] = @ + Bookings(r.tools)]
                ELSE events
  /\ offered' = IF dbfail # "first" THEN [offered EXCEPT ![c] = @ + Checks(r.tools)]
                 ELSE offered
  /\ llmSlots' = IF dbfail # "first" THEN SlotsAfter(llmSlots, c, offered[c], r.tools)
                  ELSE llmSlots
  /\ UNCHANGED <<task, dials, line, statusReq, finalizeQueue, response, invocation>>

(* -------------------- webhook twilio_voice_callback -------------------- *)
\* The callee answers: the provider requests the greeting. The opening
\* message is stored as an AI row when the call is found and the language
\* model produced it; every other path speaks the generic greeting.
VoiceCallback(c, openingOk) ==
  /\ c \in CallIds
  /\ line[c] = "ringing"
  /\ line' = [line EXCEPT ![c] = "answered"]
  /\ history' = IF FoundBySid(c) /\ openingOk
                  THEN [history EXCEPT ![c] = Append(@, "ai")] ELSE history
  /\ UNCHANGED <<calls, leadStatus, meetings, task, dials, statusReq,
                 finalizeQueue, response, turnBudget>>
  /\ UNCHANGED svcVars

(* -------------------- webhook twilio_status_callback ------------------- *)
TerminalStatus == {"completed", "busy", "no-answer", "failed"}
CallStatus == TerminalStatus

\* the terminal event the provider sends for a line in each state (the
\* handler writes nothing for the other events: initiated, ringing, answered)
StatusOf(c) ==
  CASE line[c] = "ringing" -> {"busy", "no-answer", "failed"}
    [] line[c] \in {"answered", "hungup"} -> {"completed"}
    [] OTHER -> {}

Keep == "keep"

\* a 'completed' branch that never writes the outcome, and one that always does
NeverDefault(o) == Keep
AlwaysDefault(o) == "busy"

\* Lines 50-53: 'completed' keeps the outcome the conversation set and
\* writes BUSY only over None.
CompletedOutcome(o) == IF o = NullOutcome THEN "busy" ELSE Keep

\* Lines 20-61 and 64-71: the handler finds the call, sets the attributes of
\* its session and, for 'completed', enqueues finalize_call; nothing is
\* committed yet.
StatusBegin(c, call_status) ==
  /\ c \in CallIds
  /\ statusReq = NoRequest
  /\ call_status \in StatusOf(c)
  /\ line' = IF call_status \in TerminalStatus THEN [line EXCEPT ![c] = "ended"] ELSE line
  /\ IF ~FoundBySid(c)
       THEN UNCHANGED <<statusReq, finalizeQueue>>
     ELSE IF call_status = "completed"
       THEN /\ statusReq' = [kind |-> "pending", call |-> c, ended |-> TRUE,
                             outcome |-> CompletedOutcome(calls[c].outcome),
                             lead |-> "contacted"]
            /\ finalizeQueue' = finalizeQueue \cup {c}
     ELSE \* call_status in ['busy', 'no-answer', 'failed']
          /\ statusReq' = [kind |-> "pending", call |-> c, ended |-> TRUE,
                           outcome |-> "no_answer", lead |-> "no_answer"]
          /\ UNCHANGED finalizeQueue
  /\ UNCHANGED <<calls, leadStatus, history, meetings, task, dials, response,
                 turnBudget>>
  /\ UNCHANGED svcVars

\* Line 73, db.commit(): the UPDATE writes the attributes the handler set.
StatusCommit ==
  /\ statusReq # NoRequest
  /\ LET c == statusReq.call IN
       /\ calls' = [calls EXCEPT
                      ![c].ended = IF statusReq.ended THEN TRUE ELSE @,
                      ![c].outcome = IF statusReq.outcome = Keep THEN @
                                     ELSE statusReq.outcome]
       /\ leadStatus' = IF statusReq.lead = Keep THEN leadStatus
                        ELSE [leadStatus EXCEPT ![calls[c].lead] = statusReq.lead]
  /\ statusReq' = NoRequest
  /\ UNCHANGED <<history, meetings, task, dials, line, finalizeQueue, response,
                 turnBudget>>
  /\ UNCHANGED svcVars

(* -------------------------- task finalize_call ------------------------- *)
\* transcript_lines: one "AI: ..." or "User: ..." line per history row
RECURSIVE TranscriptLines(_)
TranscriptLines(h) ==
  IF h = <<>> THEN <<>>
  ELSE <<IF Head(h) = "ai" THEN "AI" ELSE "User">> \o TranscriptLines(Tail(h))

\* db.query(Meeting).filter(Meeting.call_id == call_id).first()
HasMeeting(c) == \E i \in 1..Len(meetings) : meetings[i].call = c

\* summarize_call(transcript_text), plus " | Meeting booked: ..." if a meeting exists
SummaryOf(c) == IF HasMeeting(c) THEN <<"summary", "meeting_booked">> ELSE <<"summary">>

\* the row finalize_call commits
Finalized(row, c) ==
  [row EXCEPT !.transcript = Some(TranscriptLines(history[c])),
              !.summary = Some(SummaryOf(c))]

\* One run of finalize_call(c) taken from the queue; dbfail: the commit raises,
\* the session is rolled back and {"success": False} returned.
FinalizeCall(c, dbfail) ==
  /\ c \in finalizeQueue
  /\ finalizeQueue' = finalizeQueue \ {c}
  /\ IF dbfail
       THEN UNCHANGED calls
       ELSE calls' = [calls EXCEPT ![c] = Finalized(@, c)]
  /\ UNCHANGED <<leadStatus, history, meetings, task, dials, line, statusReq,
                 response, turnBudget>>
  /\ UNCHANGED svcVars

(* ---------------------------- specification ---------------------------- *)
\* the inputs of one turn: the language model runs only after the first
\* commit succeeded
NoRun == [fail |-> "first", tools |-> <<>>, goodbye |-> FALSE, confirmed |-> FALSE,
          decline |-> FALSE, affirm |-> FALSE]
TurnInputs ==
  {[r |-> r, dbfail |-> d] : r \in LLMRuns, d \in {"none", "second"}}
    \cup {[r |-> NoRun, dbfail |-> "first"]}

\* the form of one request to /twilio/process-speech
SpeechRequests ==
  {[speech |-> "text", r |-> x.r, dbfail |-> x.dbfail] : x \in TurnInputs}
    \cup {[speech |-> "empty", r |-> NoRun, dbfail |-> "none"]}

Next ==
  \/ \E t \in Tasks, l \in LeadIds : InitiateStart(t, l)
  \/ \E t \in Tasks : InitiateCreate(t)
  \/ \E t \in Tasks, ok \in BOOLEAN : InitiateDial(t, ok)
  \/ \E t \in Tasks, dbfail \in BOOLEAN : InitiateFinish(t, dbfail)
  \/ \E c \in CallIds, openingOk \in BOOLEAN : VoiceCallback(c, openingOk)
  \/ \E c \in CallIds, x \in SpeechRequests :
        ProcessSpeech(c, x.speech, x.r, x.dbfail)
  \/ \E c \in CallIds, x \in TurnInputs :
        ProcessConversationTurn(c, x.r, x.dbfail)
  \/ \E c \in CallIds, call_status \in CallStatus : StatusBegin(c, call_status)
  \/ StatusCommit
  \/ \E c \in CallIds, dbfail \in BOOLEAN : FinalizeCall(c, dbfail)

Spec == Init /\ [][Next]_vars

(* ---- the life of one stored call ---------------------------------------- *)
\* A call row as the calls table can hold it right after initiate_call
\* committed it: the outcome column is nullable in the database
\* (migrate_outcome_nullable.py) and the handlers test it for None, so the
\* stored outcome is any CallOutcome or NULL. The task that inserted the row
\* is about to dial.
StoredCall(o) == [lead |-> 1, sid |-> NoSid, outcome |-> o, ended |-> FALSE,
                  transcript |-> None, summary |-> None]

InitStored ==
  /\ \E o \in CallOutcome \cup {NullOutcome} : calls = <<StoredCall(o)>>
  /\ leadStatus = [l \in Leads |-> IF l = 1 THEN "calling" ELSE "pending"]
  /\ history = <<<<>>>>
  /\ meetings = <<>>
  /\ task = [t \in Tasks |-> IF t = 1
                 THEN [IdleTask EXCEPT !.pc = "created", !.lead = 1, !.call = 1]
                 ELSE IdleTask]
  /\ dials = 0
  /\ line = <<"idle">>
  /\ statusReq = NoRequest
  /\ finalizeQueue = {}
  /\ response = NoResponse
  /\ turnBudget = MaxStoredTurns
  /\ events = <<0>>
  /\ offered = <<0>>
  /\ llmSlots = NoSlots
  /\ invocation = NoInvocation

NextStored ==
  \/ \E t \in Tasks, ok \in BOOLEAN : InitiateDial(t, ok)
  \/ \E t \in Tasks, dbfail \in BOOLEAN : InitiateFinish(t, dbfail)
  \/ \E c \in CallIds, openingOk \in BOOLEAN : VoiceCallback(c, openingOk)
  \/ \E c \in CallIds, x \in SpeechRequests :
        ProcessSpeech(c, x.speech, x.r, x.dbfail)
  \/ \E c \in CallIds, x \in TurnInputs :
        ProcessConversationTurn(c, x.r, x.dbfail)
  \/ \E c \in CallIds, call_status \in CallStatus : StatusBegin(c, call_status)
  \/ StatusCommit
  \/ \E c \in CallIds, dbfail \in BOOLEAN : FinalizeCall(c, dbfail)

SpecStored == InitStored /\ [][NextStored]_vars

(* ------------------------------- claims -------------------------------- *)
\* the active calls of a lead, read from the rows
Active(l) == {c \in CallIds : calls[c].lead = l /\ ~calls[c].ended}

\* C1: in every reachable state every lead has at most one Call row with a
\* null ended_at, under every interleaving of initiate_call executions.
C1_AtMostOneActiveCall == \A l \in Leads : Cardinality(Active(l)) <= 1

\* C1 witness: two executions for the same lead both passed the active-call
\* query, one inserted its Call and the other's insert was refused.
C1_Witness ==
  \E t, u \in Tasks :
     /\ t # u /\ task[t].lead = task[u].lead
     /\ task[t].pc = "created" /\ task[u].pc = "retry"
     /\ Cardinality(Active(task[t].lead)) = 1

\* C2: of the initiate_call executions that race for one lead, the ones that
\* do not create the Call return 'Call already in progress': none of them
\* ends in the exception path (a retry, or the exception once retries are spent).
C2_LosersReturnInProgress ==
  \A t \in Tasks :
     /\ task[t].pc # "retry"
     /\ task[t].pc = "done" => task[t].result.kind # "raised"

\* C3: initiate_call started while its lead has an active call returns
\* {success: false, error: 'Call already in progress', active_call_id: the
\* id of that call} and leaves the Call rows, the lead statuses and the
\* number of dial requests unchanged.
C3_DuplicateRejected ==
  [][\A t \in Tasks :
       (task[t].pc \in {"idle", "retry"} /\ task'[t] # task[t]
          /\ Active(task'[t].lead) # {})
       => /\ task'[t].pc = "done"
          /\ task'[t].result.kind = "in_progress"
          /\ task'[t].result.success = FALSE
          /\ task'[t].result.error = "Call already in progress"
          /\ task'[t].result.active_call_id \in Active(task'[t].lead)
          /\ calls' = calls /\ leadStatus' = leadStatus /\ dials' = dials]_vars

\* C3 witness: an execution was rejected while the call another execution
\* created is active.
C3_Witness ==
  \E t \in Tasks :
     /\ task[t].pc = "done" /\ task[t].result.kind = "in_progress"
     /\ task[t].result.active_call_id \in Active(task[t].lead)
     /\ Len(calls) = 1

\* the language-model runs in which the model or the tool layer raises
FailingRuns == {r \in LLMRuns : r.fail # "none"}

C5_EndedHasOutcome ==
  \A c \in CallIds : calls[c].ended => calls[c].outcome # NullOutcome

\* C5 witness: a call stored without an outcome has been ended by a committed
\* 'completed' event, before any turn.
C5_Witness ==
  \E c \in CallIds :
     /\ calls[c].ended /\ calls[c].outcome = "busy" /\ history[c] = <<>>
     /\ line[c] = "ended" /\ statusReq = NoRequest
     /\ leadStatus[calls[c].lead] = "contacted"

\* the commit of a 'completed' status event
CompletedCommit(c) ==
  /\ statusReq # NoRequest /\ statusReq.call = c /\ statusReq.lead = "contacted"
  /\ StatusCommit

\* C6: the commit of a 'completed' event leaves an outcome of interested or
\* not_interested as it is; only a null outcome is replaced, by busy.
C6_CompletedKeepsOutcome ==
  [][\A c \in CallIds :
       CompletedCommit(c)
       => calls'[c].outcome = IF calls[c].outcome = NullOutcome
                                THEN "busy" ELSE calls[c].outcome]_vars

\* C6 witness: a 'completed' event was committed for a call the conversation
\* had set to interested or not_interested.
C6_Witness ==
  \E c \in CallIds :
     /\ calls[c].ended /\ calls[c].outcome \in Decided /\ history[c] # <<>>
     /\ line[c] = "ended" /\ statusReq = NoRequest
     /\ leadStatus[calls[c].lead] = "contacted"

\* the two fixed apologies of the turn handler
Apologies == {"llm_apology", "handler_apology"}

\* C7: a request to twilio_process_speech in which the language model raises
\* is answered with a fixed apology that ends the call, and an outcome of
\* interested stays interested.
C7_LLMFailureApologises ==
  [][\A c \in CallIds, r \in FailingRuns, d \in {"none", "second"} :
       ProcessSpeech(c, "text", r, d)
       => /\ FoundBySid(c)
             => response'.say \in Apologies /\ response'.hangup
          /\ calls[c].outcome = "interested" => calls'[c].outcome = "interested"]_vars

\* C7 witness: the apology of the language-model failure was spoken on a call
\* that is interested and now ended.
C7_Witness ==
  \E c \in CallIds :
     /\ response = [kind |-> "reply", say |-> "llm_apology", hangup |-> TRUE]
     /\ line[c] = "hungup"
     /\ calls[c].ended /\ calls[c].outcome = "interested"

\* a committed turn of either processor on a found call, with run r
FailedTurn(c, r) ==
  \/ FoundBySid(c) /\ ProcessSpeech(c, "text", r, "none")
  \/ ProcessConversationTurn(c, r, "none")

SpokenTexts == {"error_processing", "please_repeat", "handler_apology",
                "llm_apology", "ai_response"}

\* C9: every request to twilio_process_speech is answered with a spoken
\* reply: on success, on a language-model or tool failure, on an unknown
\* sid, on empty speech and on a failing commit.
C9_AlwaysReplies ==
  [][\/ response'.kind = "reply" /\ response'.say \in SpokenTexts
     \/ ~\E c \in CallIds, x \in SpeechRequests :
           ProcessSpeech(c, x.speech, x.r, x.dbfail)]_vars

\* C9 witness: a request whose second commit failed was answered with the
\* handler's apology, the user row of the turn staying stored.
C9_Witness ==
  \E c \in CallIds :
     /\ response = HandlerApology /\ line[c] = "hungup"
     /\ history[c] # <<>> /\ history[c][Len(history[c])] = "user"

\* intents that do not decide the outcome
AmbiguousIntents == {"INTERESTED", "SCHEDULE_MEETING", "NEEDS_INFO", "END_CALL"}

\* C10: a turn of either processor with an ambiguous or ongoing intent never
\* changes an outcome of interested or not_interested to busy.
C10_NoDowngradeToBusy ==
  [][\A c \in CallIds, r \in LLMRuns :
       (/\ GetResponseWithTools(r).intent \in AmbiguousIntents
        /\ calls[c].outcome \in Decided
        /\ \/ ProcessSpeech(c, "text", r, "none")
           \/ ProcessConversationTurn(c, r, "none"))
       => calls'[c].outcome # "busy"]_vars

\* the runs in which nothing raises and a book_meeting call succeeded
BookedRuns == {r \in LLMRuns : r.fail = "none" /\ BookedIn(r.tools)}

\* C11: a committed turn of either processor in which a book_meeting call
\* succeeded leaves the call's outcome interested, whether the intent is
\* MEETING_BOOKED (goodbye) or SCHEDULE_MEETING (no goodbye).
C11_BookingMakesInterested ==
  [][\A c \in CallIds, r \in BookedRuns :
       (\/ FoundBySid(c) /\ ProcessSpeech(c, "text", r, "none")
        \/ ProcessConversationTurn(c, r, "none"))
       => calls'[c].outcome = "interested"]_vars

\* the Meeting rows of a call
MeetingRows(c) == Cardinality({i \in 1..Len(meetings) : meetings[i].call = c})

\* C12: every call has as many Meeting rows as book_meeting executions that
\* returned success during its turns, also after a turn in which a later
\* step failed.
C12_OneMeetingPerBooking == \A c \in CallIds : MeetingRows(c) = events[c]

\* ACTIVE -> ENDING: the intents that end the conversation
EndingIntents == {"MEETING_BOOKED", "NOT_INTERESTED", "END_CALL"}

\* C13: a committed turn whose intent is MEETING_BOOKED, NOT_INTERESTED or
\* END_CALL stamps the call's ended_at, and the webhook's reply to it hangs up.
C13_EndingTurnStampsEndedAt ==
  [][\A c \in CallIds, r \in LLMRuns :
       GetResponseWithTools(r).intent \in EndingIntents
       => /\ (FoundBySid(c) /\ ProcessSpeech(c, "text", r, "none"))
               => response'.hangup /\ calls'[c].ended
          /\ ProcessConversationTurn(c, r, "none") => calls'[c].ended]_vars

\* a turn of call c by either processor, with the inputs x
TurnOf(c, x) ==
  \/ FoundBySid(c) /\ ProcessSpeech(c, "text", x.r, x.dbfail)
  \/ ProcessConversationTurn(c, x.r, x.dbfail)

\* C14: the writes of one turn are one transaction: after a turn, also one
\* that fails part-way, either the user row, the AI row, the outcome update
\* and the Meeting rows are all stored or nothing of the turn is.
C14_TurnIsAtomic ==
  [][\A c \in CallIds, x \in TurnInputs :
       TurnOf(c, x)
       => \/ /\ history'[c] = history[c] /\ calls' = calls
             /\ meetings' = meetings /\ leadStatus' = leadStatus
          \/ history'[c] = history[c] \o <<"user", "ai">>]_vars

\* C15: when the dial yields no call sid, initiate_call sets the new call's
\* outcome to no_answer, stamps its ended_at and sets the lead to no_answer;
\* the lead then has no active call, and an initiate_call that starts for a
\* lead without an active call is not rejected.
C15_DialFailureEndsCall ==
  [][\A t \in Tasks :
       /\ (task[t].pc = "dialed" /\ task[t].sid = NoSid /\ task'[t].pc = "done")
          => /\ calls'[task[t].call].outcome = "no_answer"
             /\ calls'[task[t].call].ended
             /\ leadStatus'[task[t].lead] = "no_answer"
             /\ task'[t].result.kind = "dial_failed"
             /\ \A c \in CallIds : calls'[c].lead = task[t].lead => calls'[c].ended
       /\ (task[t].pc \in {"idle", "retry"} /\ task'[t] # task[t]
             /\ task'[t].lead \in Leads /\ Active(task'[t].lead) = {})
          => task'[t].pc = "checked"]_vars

\* C15 witness: after the dial of the lead's first call failed, a later
\* initiate_call created a second call for the lead.
C15_Witness ==
  /\ Len(calls) = 2 /\ calls[1].lead = calls[2].lead
  /\ calls[1].sid = NoSid /\ calls[1].ended /\ calls[1].outcome = "no_answer"
  /\ \E t \in Tasks : task[t].result.kind = "dial_failed"

\* C16: initiate_call retries a failed dial while retries are left, never
\* retries more than max_retries times, and returns 'Lead not found' without
\* a retry.
C16_DialFailureRetried ==
  [][\A t \in Tasks :
       /\ task'[t].retries <= MaxRetries
       /\ (task[t].pc = "dialed" /\ task[t].sid = NoSid /\ task'[t] # task[t]
             /\ task[t].retries < MaxRetries)
          => task'[t].pc = "retry" /\ task'[t].retries = task[t].retries + 1
       /\ (task[t].pc \in {"idle", "retry"} /\ task'[t] # task[t]
             /\ task'[t].lead \notin Leads)
          => /\ task'[t].pc = "done" /\ task'[t].retries = task[t].retries
             /\ task'[t].result.error = "Lead not found"]_vars

(* ---- the methods of one LLMService instance ---------------------------- *)
\* What _book_meeting meets:
\*   calendar - "absent": no calendar_service; "event": create_meeting
\*              returns the event; "none": it returns None; "raises"
\*   zoom     - "absent": no zoom_service; "meeting": create_meeting returns
\*              the meeting; "none": it returns None; "raises"
\*   datetime_ok - args["datetime"] is present and parses as ISO
\*   args_ok  - args holds guest_name and guest_email; without them
\*              args['guest_name'] raises KeyError before any collaborator
\*              is called
\*   slots    - "none": recently_offered_slots is empty; "match" / "other":
\*              the datetime is / is not one of the offered slots
BookingInputs ==
  [calendar : {"absent", "event", "none", "raises"},
   zoom : {"absent", "meeting", "none", "raises"},
   datetime_ok : BOOLEAN, args_ok : BOOLEAN, slots : {"none", "match", "other"}]

\* the comparison with the offered slots: each slot['start'] is the str
\* get_available_slots stored (current_time.isoformat()), so
\* offered_dt.date() raises AttributeError as soon as there is a slot
SlotCheckRaises(a) == a.slots # "none"

\* the calendar event exists once create_meeting was reached and returned it
EventCreated(a) ==
  a.calendar = "event" /\ a.datetime_ok /\ a.args_ok /\ ~SlotCheckRaises(a)

BookingFailure(e) == [success |-> FALSE, error |-> e]

\* a booking that reports failure when the video meeting was not created
BookMeetingNeedsZoom(a) ==
  IF EventCreated(a) /\ a.zoom = "meeting"
    THEN [success |-> TRUE, event_id |-> "event_id", zoom_link |-> "join_url",
          video_link |-> "join_url"]
    ELSE BookingFailure("booking failed")

\* a booking that goes on with a default when the datetime does not parse
BookMeetingCoerces(a) ==
  IF a.calendar = "event" /\ a.args_ok /\ ~SlotCheckRaises(a)
    THEN [success |-> TRUE, event_id |-> "event_id", zoom_link |-> "null",
          video_link |-> "null"]
    ELSE BookingFailure("booking failed")

\* LLMService._book_meeting: the dictionary it returns
BookMeeting(a) ==
  IF a.calendar = "absent" THEN BookingFailure("Calendar service is not configured")
  ELSE IF ~a.datetime_ok THEN BookingFailure("Invalid datetime format")
  ELSE IF SlotCheckRaises(a) THEN BookingFailure("AttributeError")
  ELSE IF ~a.args_ok THEN BookingFailure("KeyError")
  ELSE LET zoom_link == IF a.zoom = "meeting" THEN "join_url" ELSE "null" IN
    CASE a.calendar = "raises" -> BookingFailure("exception")
      [] a.calendar = "none" -> BookingFailure("Failed to create calendar event")
      [] OTHER -> [success |-> TRUE, event_id |-> "event_id",
                   zoom_link |-> zoom_link, video_link |-> zoom_link]

\* the collaborator calls _book_meeting makes, in order
BookMeetingCalls(a) ==
  IF a.calendar = "absent" \/ ~a.datetime_ok \/ SlotCheckRaises(a) \/ ~a.args_ok
    THEN <<>>
    ELSE (IF a.zoom = "absent" THEN <<>> ELSE <<"zoom.create_meeting">>)
           \o <<"calendar.create_meeting">>

\* the Meeting rows the tool loop of a turn processor adds for one executed
\* tool call: tool_call['tool'] == 'book_meeting' and
\* tool_call['result'].get('success')
MeetingRowsFor(tool, result) ==
  IF tool = "book_meeting" /\ "success" \in DOMAIN result /\ result.success
    THEN 1 ELSE 0

\* What _check_calendar_availability meets:
\*   "absent"        - the LLMService has no calendar_service
\*   "uninitialised" - CalendarService.service is None (authentication or
\*                     build failed in __init__)
\*   "http_error"    - the free/busy query raises HttpError
\*   "raises"        - the query raises any other exception
\*   "empty"         - the query succeeds and no slot is free
\*   "slots"         - the query succeeds and slots are free
CheckInputs ==
  [calendar : {"absent", "uninitialised", "http_error", "raises", "empty", "slots"}]

\* CalendarService.get_available_slots: the list it returns ("raises" aside)
GetAvailableSlots(calendar) ==
  CASE calendar = "uninitialised" -> <<>>
    [] calendar = "http_error" -> <<>>
    [] calendar = "empty" -> <<>>
    [] OTHER -> <<"slot">>

\* LLMService._check_calendar_availability: the dictionary it returns
CheckCalendarAvailability(a) ==
  IF a.calendar = "absent"
    THEN [success |-> FALSE, error |-> "Calendar service is not configured"]
  ELSE IF a.calendar = "raises" THEN [success |-> FALSE, error |-> "exception"]
  ELSE [success |-> TRUE, available_slots |-> GetAvailableSlots(a.calendar)]

\* the collaborator calls _check_calendar_availability makes
CheckCalls(a) ==
  IF a.calendar = "absent" THEN <<>> ELSE <<"calendar.get_available_slots">>

\* an exception that leaves a method
Raised == [raised |-> TRUE]

\* The inputs of _execute_tool: the tool name, what the tool meets, and
\* whether tool_args can be dumped as JSON (arguments parsed by json.loads
\* always can; _check_calendar_availability and _book_meeting dump them
\* before their own try block)
ToolInvocations ==
  {[name |-> "book_meeting", serialisable |-> j, args |-> a] :
      j \in BOOLEAN, a \in BookingInputs}
  \cup {[name |-> "check_calendar_availability", serialisable |-> j, args |-> a] :
      j \in BOOLEAN, a \in CheckInputs}
  \cup {[name |-> "unknown_tool", serialisable |-> j, args |-> [calendar |-> "slots"]] :
      j \in BOOLEAN}

\* the body of _execute_tool's try block: a result, or the exception
ToolBody(x) ==
  CASE x.name = "check_calendar_availability" ->
         IF x.serialisable THEN CheckCalendarAvailability(x.args) ELSE Raised
    [] x.name = "book_meeting" ->
         IF x.serialisable THEN BookMeeting(x.args) ELSE Raised
    [] OTHER -> [error |-> "Unknown tool"]

\* an _execute_tool without its except branch
ExecuteToolNoCatch(x) == ToolBody(x)

\* LLMService._execute_tool: except Exception as e: return {"error": str(e)}
ExecuteTool(x) ==
  IF ToolBody(x) = Raised THEN [error |-> "exception"] ELSE ToolBody(x)

\* the collaborator calls one _execute_tool makes
ExecuteToolCalls(x) ==
  CASE ~x.serialisable -> <<>>
    [] x.name = "check_calendar_availability" -> CheckCalls(x.args)
    [] x.name = "book_meeting" -> BookMeetingCalls(x.args)
    [] OTHER -> <<>>

\* the inputs of _classify_intent: the runs in which nothing raised
ClassifyInputs == {r \in LLMRuns : r.fail = "none"}

Pending == [kind |-> "pending"]

InitService ==
  /\ calls = <<>>
  /\ leadStatus = [l \in Leads |-> "pending"]
  /\ history = <<>>
  /\ meetings = <<>>
  /\ task = [t \in Tasks |-> IdleTask]
  /\ dials = 0
  /\ line = <<>>
  /\ statusReq = NoRequest
  /\ finalizeQueue = {}
  /\ response = NoResponse
  /\ turnBudget = 0
  /\ events = <<>>
  /\ offered = <<>>
  /\ llmSlots = NoSlots
  /\ \/ \E a \in BookingInputs :
          invocation = [kind |-> "book_meeting", args |-> a, ret |-> Pending,
                        effects |-> <<>>, rows |-> 0]
     \/ \E a \in CheckInputs :
          invocation = [kind |-> "check_calendar_availability", args |-> a,
                        ret |-> Pending, effects |-> <<>>]
     \/ \E x \in ToolInvocations :
          invocation = [kind |-> "execute_tool", args |-> x, ret |-> Pending,
                        effects |-> <<>>]
     \/ \E r \in ClassifyInputs :
          invocation = [kind |-> "classify_intent", args |-> r, ret |-> Pending,
                        effects |-> <<>>]

RunBookMeeting ==
  /\ invocation.kind = "book_meeting" /\ invocation.ret = Pending
  /\ invocation' = [invocation EXCEPT
                      !.ret = BookMeeting(invocation.args),
                      !.effects = BookMeetingCalls(invocation.args),
                      !.rows = MeetingRowsFor("book_meeting",
                                              BookMeeting(invocation.args))]
  /\ UNCHANGED <<calls, leadStatus, history, meetings, task, dials, line,
                 statusReq, finalizeQueue, response, turnBudget, events,
                 offered, llmSlots>>

RunClassifyIntent ==
  /\ invocation.kind = "classify_intent" /\ invocation.ret = Pending
  /\ invocation' = [invocation EXCEPT
                      !.ret = [intent |-> ClassifyIntent(invocation.args,
                                                         invocation.args.tools)]]
  /\ UNCHANGED <<calls, leadStatus, history, meetings, task, dials, line,
                 statusReq, finalizeQueue, response, turnBudget, events,
                 offered, llmSlots>>

RunCheckCalendarAvailability ==
  /\ invocation.kind = "check_calendar_availability" /\ invocation.ret = Pending
  /\ invocation' = [invocation EXCEPT
                      !.ret = CheckCalendarAvailability(invocation.args),
                      !.effects = CheckCalls(invocation.args)]
  /\ UNCHANGED <<calls, leadStatus, history, meetings, task, dials, line,
                 statusReq, finalizeQueue, response, turnBudget, events,
                 offered, llmSlots>>

RunExecuteTool ==
  /\ invocation.kind = "execute_tool" /\ invocation.ret = Pending
  /\ invocation' = [invocation EXCEPT
                      !.ret = ExecuteTool(invocation.args),
                      !.effects = ExecuteToolCalls(invocation.args)]
  /\ UNCHANGED <<calls, leadStatus, history, meetings, task, dials, line,
                 statusReq, finalizeQueue, response, turnBudget, events,
                 offered, llmSlots>>

NextService ==
  \/ RunBookMeeting
  \/ RunClassifyIntent
  \/ RunCheckCalendarAvailability
  \/ RunExecuteTool

SpecService == InitService /\ [][NextService]_vars

\* C17: when the calendar event was created, book_meeting returns success
\* with the event id, and when the video step failed (returned None or
\* raised) or is not configured the video link of that result is null.
C17_BookingSucceedsWithoutVideo ==
  (/\ invocation.kind = "book_meeting" /\ invocation.ret # Pending
   /\ EventCreated(invocation.args))
  => /\ invocation.ret.success /\ invocation.ret.event_id = "event_id"
     /\ invocation.args.zoom # "meeting"
        => invocation.ret.video_link = "null" /\ invocation.ret.zoom_link = "null"
     /\ invocation.args.zoom = "meeting" => invocation.ret.video_link = "join_url"

\* C17 witness: a booking whose video step raised returned success.
C17_Witness ==
  /\ invocation.kind = "book_meeting" /\ invocation.ret # Pending
  /\ invocation.args.zoom = "raises" /\ invocation.args.calendar = "event"
  /\ invocation.ret.success /\ invocation.ret.video_link = "null"

\* C18: _classify_intent returns the intent of the first-match cascade:
\* booked and goodbye -> MEETING_BOOKED; booked without goodbye ->
\* SCHEDULE_MEETING; goodbye -> END_CALL; decline keyword -> NOT_INTERESTED;
\* availability check -> SCHEDULE_MEETING; affirmative keyword ->
\* INTERESTED; otherwise NEEDS_INFO.
C18_ClassifyFollowsCascade ==
  (invocation.kind = "classify_intent" /\ invocation.ret # Pending)
  => LET r == invocation.args
         booked == \E i \in 1..Len(r.tools) :
                      r.tools[i].tool = "book_meeting" /\ r.tools[i].success
         checked == \E i \in 1..Len(r.tools) :
                       r.tools[i].tool = "check_calendar_availability"
     IN invocation.ret.intent =
          CASE booked /\ r.goodbye -> "MEETING_BOOKED"
            [] booked /\ ~r.goodbye -> "SCHEDULE_MEETING"
            [] ~booked /\ r.goodbye -> "END_CALL"
            [] ~booked /\ ~r.goodbye /\ r.decline -> "NOT_INTERESTED"
            [] ~booked /\ ~r.goodbye /\ ~r.decline /\ checked -> "SCHEDULE_MEETING"
            [] ~booked /\ ~r.goodbye /\ ~r.decline /\ ~checked /\ r.affirm
                 -> "INTERESTED"
            [] OTHER -> "NEEDS_INFO"

\* C19: a call is created with a stored outcome of null and keeps it while
\* in progress, until a turn or a status event sets it: a call that is not
\* ended and has no committed turn has a null outcome.
C19_CreatedWithNullOutcome ==
  \A c \in CallIds :
     (~calls[c].ended /\ history[c] \in {<<>>, <<"ai">>, <<"user">>})
     => calls[c].outcome = NullOutcome

\* the slots the most recent check_calendar_availability of call c returned
MostRecentOffer(c) == IF offered[c] > 0 THEN <<c, offered[c]>> ELSE NoSlots

\* C20: when book_meeting runs in a turn of a call, the slots it validates
\* the datetime against are the ones the most recent
\* check_calendar_availability of that call returned, in this turn or in an
\* earlier one, for both turn processors.
C20_BookingValidatesOwnSlots ==
  [][\A c \in CallIds, r \in LLMRuns :
       (\E i \in 1..Len(r.tools) : r.tools[i].tool = "book_meeting")
       => /\ (FoundBySid(c) /\ ProcessSpeech(c, "text", r, "none"))
               => SlotsAtBooking(NewServiceSlots, c, r.tools)
                    = SlotsAtBooking(MostRecentOffer(c), c, r.tools)
          /\ ProcessConversationTurn(c, r, "none")
               => SlotsAtBooking(llmSlots, c, r.tools)
                    = SlotsAtBooking(MostRecentOffer(c), c, r.tools)]_vars

\* C21: with a non-empty set of recently offered slots, book_meeting compares
\* the requested datetime with the offered slots and, whether it matches one
\* or none, goes on to create the calendar event and returns success when the
\* event is created.
C21_BookingProceedsAfterSlotCheck ==
  (/\ invocation.kind = "book_meeting" /\ invocation.ret # Pending
   /\ invocation.args.slots \in {"match", "other"}
   /\ invocation.args.calendar = "event"
   /\ invocation.args.datetime_ok /\ invocation.args.args_ok)
  => /\ invocation.ret.success
     /\ \E i \in 1..Len(invocation.effects) :
           invocation.effects[i] = "calendar.create_meeting"

(* ---- liveness: the life of one stored call under fair scheduling -------- *)
\* The Celery worker runs every task it was handed (the steps of
\* initiate_call, the queued finalize_call), a request handler that began runs
\* to its commit, and the provider delivers the terminal status event of
\* every line it opened.
FairStored ==
  /\ WF_vars(\E t \in Tasks, ok \in BOOLEAN : InitiateDial(t, ok))
  /\ WF_vars(\E t \in Tasks, dbfail \in BOOLEAN : InitiateFinish(t, dbfail))
  /\ WF_vars(\E c \in CallIds, call_status \in CallStatus : StatusBegin(c, call_status))
  /\ WF_vars(StatusCommit)
  /\ WF_vars(\E c \in CallIds, dbfail \in BOOLEAN : FinalizeCall(c, dbfail))

LiveStored == SpecStored /\ FairStored

\* C22: every call that ends (by a turn that ends it, by a 'completed'
\* status event, by a busy / no-answer / failed status event or by a failed
\* dial) eventually has finalize_call run for it: its transcript and summary
\* are eventually populated.
C22_EndedEventuallyFinalized ==
  \A c \in 1..MaxCalls :
     (c \in CallIds /\ calls[c].ended)
       ~> (c \in CallIds /\ calls[c].transcript # None /\ calls[c].summary # None)

\* the states of the calendar collaborator in which it is unavailable
CalendarUnavailable == {"absent", "uninitialised", "http_error", "raises"}

\* C23: check_calendar_availability returns {success: false, error} when no
\* calendar service is configured, when the calendar client failed to
\* initialise and when the free/busy query fails; it reports success in none
\* of these cases.
C23_UnavailableCalendarReported ==
  (/\ invocation.kind = "check_calendar_availability" /\ invocation.ret # Pending
   /\ invocation.args.calendar \in CalendarUnavailable)
  => /\ invocation.ret # Raised
     /\ ~invocation.ret.success
     /\ "error" \in DOMAIN invocation.ret

\* C24: once the calendar event is created, book_meeting attempts the email
\* invite to the guest and reports success whatever the invite does, with a
\* warning field in the result when the invite failed.
C24_InviteAttemptedAfterEvent ==
  (/\ invocation.kind = "book_meeting" /\ invocation.ret # Pending
   /\ EventCreated(invocation.args))
  => /\ invocation.ret.success
     /\ \E i, j \in 1..Len(invocation.effects) :
          /\ i < j
          /\ invocation.effects[i] = "calendar.create_meeting"
          /\ invocation.effects[j] = "email.send_calendar_invite"

\* C25: book_meeting with a datetime that is missing or does not parse as
\* ISO-8601 returns {success: false, error} without raising, calls neither
\* the video nor the calendar collaborator, and the turn adds no Meeting row
\* for it.
C25_InvalidDatetimeRejected ==
  (/\ invocation.kind = "book_meeting" /\ invocation.ret # Pending
   /\ ~invocation.args.datetime_ok)
  => /\ invocation.ret # Raised
     /\ ~invocation.ret.success /\ "error" \in DOMAIN invocation.ret
     /\ invocation.effects = <<>>
     /\ invocation.rows = 0

\* C25 witness: a booking whose datetime does not parse was rejected although
\* the calendar and the video collaborator work and no slot check stands in
\* the way.
C25_Witness ==
  /\ invocation.kind = "book_meeting" /\ invocation.ret # Pending
  /\ ~invocation.args.datetime_ok /\ invocation.args.args_ok
  /\ invocation.args.calendar = "event" /\ invocation.args.zoom = "meeting"
  /\ invocation.args.slots = "none"
  /\ invocation.ret = BookingFailure("Invalid datetime format")
  /\ invocation.effects = <<>> /\ invocation.rows = 0

\* C26: for every tool name, every argument set and every behaviour of the
\* calendar and video collaborators, _execute_tool returns a result object
\* (a dictionary with a success or an error key) and raises nothing; an
\* unknown tool name gives an error result and no collaborator call.
C26_ExecuteToolNeverRaises ==
  (invocation.kind = "execute_tool" /\ invocation.ret # Pending)
  => /\ invocation.ret # Raised
     /\ "success" \in DOMAIN invocation.ret \/ "error" \in DOMAIN invocation.ret
     /\ invocation.args.name = "unknown_tool"
        => "error" \in DOMAIN invocation.ret /\ invocation.effects = <<>>

\* C26 witness: a tool whose body raised before its own try block was
\* answered with an error result.
C26_Witness ==
  /\ invocation.kind = "execute_tool" /\ invocation.ret # Pending
  /\ invocation.args.name = "book_meeting" /\ ~invocation.args.serialisable
  /\ invocation.ret = [error |-> "exception"] /\ invocation.effects = <<>>

\* C27: when finalize_call starts for a call because of a 'completed' status
\* event, the writes of that event (ended_at, the defaulted outcome, the lead
\* status) are committed: the call it reads is ended, has an outcome, and no
\* status request for it is still before its commit.
C27_FinalizeSeesCommittedStatus ==
  [][\A c \in CallIds, dbfail \in BOOLEAN :
       FinalizeCall(c, dbfail)
       => /\ ~(statusReq # NoRequest /\ statusReq.call = c)
          /\ calls[c].ended
          /\ calls[c].outcome # NullOutcome
          /\ leadStatus[calls[c].lead] = "contacted"]_vars

(* ---- liveness: the whole program under fair scheduling ----------------- *)
\* As FairStored, and Celery re-delivers a task it was told to retry
\* (self.retry(countdown=60)) and runs a started task to its insert.
FairCalls ==
  /\ FairStored
  /\ WF_vars(\E t \in Tasks : task[t].pc = "retry" /\ InitiateStart(t, task[t].lead))
  /\ WF_vars(\E t \in Tasks : InitiateCreate(t))

LiveSpec == Spec /\ FairCalls

\* C28: every Call row initiate_call created eventually has its ended_at
\* set, the provider delivering a terminal status event for every line it
\* opened: no failure leaves a call active forever.
C28_CallsEventuallyEnd ==
  \A c \in 1..MaxCalls : (c \in CallIds) ~> (c \in CallIds /\ calls[c].ended)

\* C29: in every reachable state, a call whose outcome is interested has at
\* least one Meeting row referencing it.
C29_InterestedHasMeeting ==
  \A c \in CallIds : calls[c].outcome = "interested" => HasMeeting(c)

\* the lead statuses a conversation sets
ConversationStatuses == {"meeting_scheduled", "not_interested"}

\* C30: the commit of a 'completed' status event leaves a lead status of
\* meeting_scheduled or not_interested, set during the conversation, in place.
C30_CompletedKeepsLeadStatus ==
  [][\A c \in CallIds :
       (CompletedCommit(c) /\ leadStatus[calls[c].lead] \in ConversationStatuses)
       => leadStatus'[calls[c].lead] = leadStatus[calls[c].lead]]_vars

====
